---- MODULE Spec2Model ----
(***************************************************************************)
(* Jenkins credential service: the Express endpoint                        *)
(* POST /api/validate-credentials and CredentialService.validateCredentials *)
(* with its authentication strategies, group/team resolution, pattern      *)
(* filter, permission matcher, scope mapper and token issuance.            *)
(*                                                                         *)
(* Strings that the code inspects character by character (group and team   *)
(* names, regular expressions) are sequences of one-character strings.     *)
(* Strings the code only compares or copies are TLA+ strings.              *)
(***************************************************************************)
EXTENDS Integers, Sequences, FiniteSets, TLC

\* ------------------------------------------------------------------------
\* Bounds of the model
\* ------------------------------------------------------------------------
MaxGroups == 2
MaxTeams == 2

\* ------------------------------------------------------------------------
\* JavaScript string primitives
\* ------------------------------------------------------------------------

\* The value JavaScript's null / undefined, where a string or an object is expected.
NULL == "<null>"

\* String.prototype.toLowerCase on one character (the letters the name universe uses).
LowerChar(c) ==
    CASE c = "A" -> "a"
      [] c = "M" -> "m"
      [] c = "P" -> "p"
      [] c = "R" -> "r"
      [] c = "T" -> "t"
      [] c = "V" -> "v"
      [] c = "X" -> "x"
      [] c = "Z" -> "z"
      [] OTHER -> c

toLowerCase(s) == [i \in 1..Len(s) |-> LowerChar(s[i])]

\* String.prototype.includes: needle occurs in hay as a contiguous substring.
includes(hay, needle) ==
    \E i \in 0..(Len(hay) - Len(needle)) : SubSeq(hay, i + 1, i + Len(needle)) = needle

\* Array.prototype.indexOf, zero-based, -1 when absent.
indexOf(arr, x) ==
    IF \E i \in 1..Len(arr) : arr[i] = x
    THEN (CHOOSE i \in 1..Len(arr) : arr[i] = x /\ \A j \in 1..(i - 1) : arr[j] # x) - 1
    ELSE -1

\* All sequences over S of length at most n.
SeqsUpTo(S, n) == UNION { [1..k -> S] : k \in 0..n }

\* ------------------------------------------------------------------------
\* Regular expressions (new RegExp(pattern, 'i'))
\*
\* A pattern is a record: set (the environment variable is a non-empty
\* string), compiles (new RegExp does not throw), startAnchor (^), endAnchor
\* ($) and parts, a sequence of pieces matched one after the other.  A piece
\* is [cap, alts]: cap says whether it is a capture group ( ... ), alts is
\* the ordered list of alternatives it tries (a|b|c), each a literal.  A
\* quantified class such as \d+ is written as the alternatives it can take
\* on the digit strings of the name universe, longest first (greedy).
\* ------------------------------------------------------------------------
Lit(s) == [cap |-> FALSE, alts |-> <<s>>]
Cap(a) == [cap |-> TRUE, alts |-> a]

NoMatch == [ok |-> FALSE, caps |-> <<>>]

RECURSIVE MatchParts(_, _, _, _, _)
RECURSIVE TryAlts(_, _, _, _, _, _)
\* Match pieces k.. of pattern p against s from position pos; caps are the captures so far.
MatchParts(p, k, s, pos, caps) ==
    IF k > Len(p.parts)
    THEN IF p.endAnchor /\ pos # Len(s) + 1 THEN NoMatch ELSE [ok |-> TRUE, caps |-> caps]
    ELSE TryAlts(p, k, 1, s, pos, caps)

\* Try alternative a.. of piece k, in order, backtracking when the rest fails.
TryAlts(p, k, a, s, pos, caps) ==
    IF a > Len(p.parts[k].alts) THEN NoMatch
    ELSE LET alt == p.parts[k].alts[a]
             stop == pos + Len(alt) - 1
             fits == stop <= Len(s) /\ toLowerCase(SubSeq(s, pos, stop)) = toLowerCase(alt)
             r == IF fits
                  THEN MatchParts(p, k + 1, s, stop + 1,
                                  IF p.parts[k].cap THEN Append(caps, SubSeq(s, pos, stop)) ELSE caps)
                  ELSE NoMatch
         IN IF r.ok THEN r ELSE TryAlts(p, k, a + 1, s, pos, caps)

RECURSIVE ExecFrom(_, _, _)
\* Leftmost match starting at position pos or later.
ExecFrom(p, s, pos) ==
    IF pos > Len(s) + 1 THEN NoMatch
    ELSE LET r == MatchParts(p, 1, s, pos, <<>>)
         IN IF r.ok THEN r
            ELSE IF p.startAnchor THEN NoMatch
            ELSE ExecFrom(p, s, pos + 1)

\* String.prototype.match(regex) / RegExp.prototype.exec: [ok, caps].
RegExpExec(p, s) == ExecFrom(p, s, 1)

\* RegExp.prototype.test.
RegExpTest(p, s) == RegExpExec(p, s).ok

\* A string-valued slot holding JavaScript's null / undefined (a displayName that
\* is null, a capture group that does not exist).
Undefined == <<NULL>>

\* match[1]: the first capture, undefined when the pattern has no group.
Capture1(m) == IF Len(m.caps) >= 1 THEN m.caps[1] ELSE Undefined

\* JavaScript truthiness of a string slot: undefined and "" are falsy.
Truthy(c) == c # Undefined /\ c # <<>>

\* ------------------------------------------------------------------------
\* The name universe and the naming conventions
\*
\* Names follow the README convention azgALM<project>SVC<level> for groups
\* and azgALM<project>SCM<level> for teams, shortened: "z" for azgALM,
\* P1 / P2 for the project, V for SVC, M for SCM, R / A for ReadOnly /
\* Admin.  tx and TX are a plain name in two spellings.
\* ------------------------------------------------------------------------
zP1VR == <<"z", "P", "1", "V", "R">>
zP2VA == <<"z", "P", "2", "V", "A">>
tx == <<"t", "x">>
zP1MA == <<"z", "P", "1", "M", "A">>
TX == <<"T", "X">>

GroupNames == {zP1VR, zP2VA, tx}
TeamNames == {zP1MA, TX}

Projects == << <<"P", "1">>, <<"P", "2">> >>
Levels == << <<"R">>, <<"A">> >>

\* process.env.GROUP_PATTERN / TEAM_PATTERN not set (or the empty string).
Unset == [set |-> FALSE, compiles |-> FALSE, startAnchor |-> FALSE, endAnchor |-> FALSE,
          parts |-> <<>>]
\* A pattern new RegExp rejects, such as "(".
Invalid == [set |-> TRUE, compiles |-> FALSE, startAnchor |-> FALSE, endAnchor |-> FALSE,
            parts |-> <<>>]
\* ^azgALM(AP\d+)SVC(ReadOnly|Admin)$
ReadmeGroupPattern ==
    [set |-> TRUE, compiles |-> TRUE, startAnchor |-> TRUE, endAnchor |-> TRUE,
     parts |-> <<Lit(<<"z">>), Cap(Projects), Lit(<<"V">>), Cap(Levels)>>]
\* ^azgALM(AP\d+)SCM(ReadOnly|Admin)$
ReadmeTeamPattern ==
    [set |-> TRUE, compiles |-> TRUE, startAnchor |-> TRUE, endAnchor |-> TRUE,
     parts |-> <<Lit(<<"z">>), Cap(Projects), Lit(<<"M">>), Cap(Levels)>>]
\* ^t(\d*) and ^z(\d*): patterns whose first capture can be the empty string.
LooseGroupPattern ==
    [set |-> TRUE, compiles |-> TRUE, startAnchor |-> TRUE, endAnchor |-> FALSE,
     parts |-> <<Lit(<<"t">>), Cap(<< <<"1">>, <<"2">>, <<>> >>)>>]
LooseTeamPattern ==
    [set |-> TRUE, compiles |-> TRUE, startAnchor |-> TRUE, endAnchor |-> FALSE,
     parts |-> <<Lit(<<"z">>), Cap(<< <<"1">>, <<"2">>, <<>> >>)>>]

\* The (GROUP_PATTERN, TEAM_PATTERN) settings a deployment can have.
PatternConfigs ==
    { [groupPattern |-> Unset, teamPattern |-> Unset],
      [groupPattern |-> ReadmeGroupPattern, teamPattern |-> ReadmeTeamPattern],
      [groupPattern |-> ReadmeGroupPattern, teamPattern |-> Invalid],
      [groupPattern |-> LooseGroupPattern, teamPattern |-> LooseTeamPattern] }

\* ------------------------------------------------------------------------
\* Permissions
\* ------------------------------------------------------------------------
\* const permissionLevels in calculatePermissions, highest first.
permissionLevels == <<"admin", "maintain", "push", "triage", "pull", "read">>

\* The permission strings a team can carry: the GitHub levels, the 'read'
\* default of getRepositoryTeams, and 'write', a string outside the hierarchy.
TeamPermissions == {"admin", "maintain", "push", "triage", "pull", "read", "write"}

\* A group is its name (id and description are never read); a team is
\* [name, permission] (slug is never read).  TX carries every permission
\* string, zP1MA the highest, the lowest and one that differs from a level
\* in case only.
Teams == [name : {TX}, permission : TeamPermissions]
           \cup [name : {zP1MA}, permission : {"admin", "pull", "Admin"}]

\* ------------------------------------------------------------------------
\* CredentialService.calculatePermissions
\* ------------------------------------------------------------------------
\* What calculatePermissions yields when group.name.toLowerCase() throws.
TypeError == "<TypeError>"

\* Method 2 of the loop body: both patterns configured, both compile (a
\* RegExp that does not compile throws, and the catch leaves isMatch false),
\* both names match with a truthy first capture, captures equal lower-cased.
patternMatch(groupName, teamName, cfg) ==
    /\ cfg.groupPattern.set /\ cfg.teamPattern.set
    /\ cfg.groupPattern.compiles /\ cfg.teamPattern.compiles
    /\ LET groupMatch == RegExpExec(cfg.groupPattern, groupName)
           teamMatch == RegExpExec(cfg.teamPattern, teamName)
       IN /\ groupMatch.ok /\ teamMatch.ok
          /\ Truthy(Capture1(groupMatch)) /\ Truthy(Capture1(teamMatch))
          /\ toLowerCase(Capture1(groupMatch)) = toLowerCase(Capture1(teamMatch))

\* isMatch of one loop iteration.
isMatch(groupName, teamName, cfg) ==
    LET groupLower == toLowerCase(groupName)
        teamLower == toLowerCase(teamName)
    IN \/ includes(groupLower, teamLower) \/ includes(teamLower, groupLower)
       \/ patternMatch(groupName, teamName, cfg)

\* loopBody as a first-match rule: only the first satisfied pair sets the permission.
loopBody_firstMatch(group, team, cfg, st) ==
    IF st.threw THEN st
    ELSE IF group = Undefined THEN [st EXCEPT !.threw = TRUE]
    ELSE IF isMatch(group, team.name, cfg)
    THEN [st EXCEPT !.foundMatch = TRUE,
                    !.highestPermission = IF st.foundMatch THEN @ ELSE team.permission]
    ELSE st

\* One iteration of the inner loop: st is [highestPermission, foundMatch, threw].
loopBody(group, team, cfg, st) ==
    IF st.threw THEN st
    ELSE IF group = Undefined THEN [st EXCEPT !.threw = TRUE]
    ELSE IF isMatch(group, team.name, cfg)
    THEN LET currentPermissionIndex == indexOf(permissionLevels, team.permission)
             highestPermissionIndex == indexOf(permissionLevels, st.highestPermission)
         IN [st EXCEPT !.foundMatch = TRUE,
                       !.highestPermission =
                           IF currentPermissionIndex < highestPermissionIndex
                           THEN team.permission ELSE @]
    ELSE st

RECURSIVE matchLoop(_, _, _, _, _)
\* for (group of filteredGroups) for (team of filteredTeams): pair n, row-major.
matchLoop(groups, teams, cfg, n, st) ==
    IF n >= Len(groups) * Len(teams) THEN st
    ELSE matchLoop(groups, teams, cfg, n + 1,
                   loopBody(groups[(n \div Len(teams)) + 1], teams[(n % Len(teams)) + 1], cfg, st))

\* calculatePermissions without the final foundMatch check.
calculatePermissions_noFoundCheck(filteredGroups, filteredTeams, cfg) ==
    IF Len(filteredGroups) = 0 \/ Len(filteredTeams) = 0 THEN NULL
    ELSE LET st == matchLoop(filteredGroups, filteredTeams, cfg, 0,
                             [highestPermission |-> "read", foundMatch |-> FALSE, threw |-> FALSE])
         IN IF st.threw THEN TypeError ELSE st.highestPermission

calculatePermissions(filteredGroups, filteredTeams, cfg) ==
    IF Len(filteredGroups) = 0 \/ Len(filteredTeams) = 0 THEN NULL
    ELSE LET st == matchLoop(filteredGroups, filteredTeams, cfg, 0,
                             [highestPermission |-> "read", foundMatch |-> FALSE, threw |-> FALSE])
         IN IF st.threw THEN TypeError
            ELSE IF ~st.foundMatch THEN NULL
            ELSE st.highestPermission

\* ------------------------------------------------------------------------
\* CredentialService.filterGroupsByPattern / filterTeamsByPattern
\* ------------------------------------------------------------------------
\* regex.test(name) on a name slot: test() converts null to the text "null",
\* which no pattern of the universe matches.
testName(pattern, name) == name # Undefined /\ RegExpTest(pattern, name)

\* filterGroupsByPattern returning nothing when the pattern does not compile.
filterGroupsByPattern_invalidDropsAll(groups, cfg) ==
    IF ~cfg.groupPattern.set THEN groups
    ELSE IF ~cfg.groupPattern.compiles THEN <<>>
    ELSE SelectSeq(groups, LAMBDA g : testName(cfg.groupPattern, g))

filterGroupsByPattern(groups, cfg) ==
    IF ~cfg.groupPattern.set THEN groups
    ELSE IF ~cfg.groupPattern.compiles THEN groups
    ELSE SelectSeq(groups, LAMBDA g : testName(cfg.groupPattern, g))

filterTeamsByPattern(teams, cfg) ==
    IF ~cfg.teamPattern.set THEN teams
    ELSE IF ~cfg.teamPattern.compiles THEN teams
    ELSE SelectSeq(teams, LAMBDA t : testName(cfg.teamPattern, t.name))

\* ------------------------------------------------------------------------
\* CredentialService.getTokenScopes
\* ------------------------------------------------------------------------
\* String.prototype.toLowerCase on a permission string.
lowerPermission(p) ==
    CASE p = "Admin" -> "admin"
      [] p = "Push" -> "push"
      [] OTHER -> p

\* getTokenScopes with the triage case falling into the push case.
getTokenScopes_triageAsPush(permission) ==
    LET p == lowerPermission(permission)
    IN CASE p = "admin" -> <<"repo", "admin:repo_hook", "delete_repo">>
         [] p = "maintain" -> <<"repo", "admin:repo_hook">>
         [] p \in {"push", "triage"} -> <<"repo">>
         [] OTHER -> <<"repo:status", "public_repo">>

getTokenScopes(permission) ==
    LET p == lowerPermission(permission)
    IN CASE p = "admin" -> <<"repo", "admin:repo_hook", "delete_repo">>
         [] p = "maintain" -> <<"repo", "admin:repo_hook">>
         [] p = "push" -> <<"repo">>
         [] p = "triage" -> <<"repo:status", "repo_deployment">>
         [] OTHER -> <<"repo:status", "public_repo">>

\* The permission map generateScopedToken passes to generateInstallationToken.
tokenPermissions == [contents |-> "read", metadata |-> "read", pull_requests |-> "read"]

\* ------------------------------------------------------------------------
\* Requests, environments and upstream answers
\* ------------------------------------------------------------------------
Range(f) == { f[i] : i \in DOMAIN f }

\* A 36-character token body, and a password of the GitHub PAT shape.
PatBodyLength == 36
PatPassword == <<"g", "h", "p", "_">> \o [i \in 1..PatBodyLength |-> IF i % 2 = 0 THEN "a" ELSE "7"]
PlainPassword == <<"h", "u", "n", "t", "e", "r", "2">>

\* req.body: a missing username or repository is "", a missing password is
\* <<>>, a missing organization is NULL (all of them falsy).
RequestBodies ==
    [username : {"alice", "bob", ""}, password : {PlainPassword, PatPassword, <<>>},
     repository : {"r", ""}, organization : {"o", NULL}]

\* String.prototype.toLowerCase on a user name or principal name.
lowerName(n) == CASE n = "ALICE" -> "alice" [] n = "Bob" -> "bob" [] OTHER -> n

\* process.env as read by initialize and by the strategies.  A variable a
\* strategy never reads is left at its default, so that two environments
\* differ only where the code can tell them apart; the one exception is an
\* allow-list left in place under a selector the switch does not know, in
\* production without the Azure client.
AuthMethods == {NULL, "mock", "lookup", "ropc", "saml"}
\* TEST_VALID_USERS is unset or a text, written as its pieces with every
\* comma a piece of its own: "alice, bob" and "carol,*".
ValidUsersSettings ==
    { [set |-> FALSE, value |-> <<>>],
      [set |-> TRUE, value |-> <<"alice", ",", " bob">>],
      [set |-> TRUE, value |-> <<"carol", ",", "*">>] }

RECURSIVE splitAt(_, _, _)
\* String.prototype.split(","): piece is the element being read, out the elements read.
splitAt(value, piece, out) ==
    IF value = <<>> THEN Append(out, piece)
    ELSE IF Head(value) = "," THEN splitAt(Tail(value), "", Append(out, piece))
    ELSE splitAt(Tail(value), piece \o Head(value), out)

split(value) == splitAt(value, "", <<>>)
Environments ==
    { e \in [ENTRAID_AUTH_METHOD : AuthMethods,
             AZURE_CLIENT_ID : BOOLEAN, AZURE_CLIENT_SECRET : BOOLEAN,
             NODE_ENV : {"production", "development"},
             TEST_VALID_USERS : ValidUsersSettings,
             GITHUB_APP : BOOLEAN,
             patterns : PatternConfigs] :
        /\ e.AZURE_CLIENT_SECRET => e.AZURE_CLIENT_ID
        /\ e.ENTRAID_AUTH_METHOD = "mock" =>
              (~e.AZURE_CLIENT_ID /\ e.NODE_ENV = "development")
        /\ e.ENTRAID_AUTH_METHOD \notin {"mock", "saml"} => ~e.TEST_VALID_USERS.set
        /\ (e.ENTRAID_AUTH_METHOD = "saml" /\ e.TEST_VALID_USERS.set) =>
              /\ "*" \in Range(e.TEST_VALID_USERS.value)
              /\ ~e.AZURE_CLIENT_ID /\ e.NODE_ENV = "production"
        /\ e.ENTRAID_AUTH_METHOD = "ropc" =>
              (~e.AZURE_CLIENT_SECRET /\ e.NODE_ENV = "production")
        /\ e.ENTRAID_AUTH_METHOD \notin {"mock", "ropc"} =>
              /\ e.AZURE_CLIENT_ID => e.AZURE_CLIENT_SECRET
              /\ e.AZURE_CLIENT_ID => e.NODE_ENV = "production" }

\* What an MSAL token call can do: return a token, return no token, or throw
\* an error with an errorCode and a message (the message may be empty).
MsalErrors ==
    { [errorCode |-> "invalid_grant", message |-> "AADSTS50126: invalid username or password"],
      [errorCode |-> "unauthorized_client", message |-> "AADSTS700016: application not found"],
      [errorCode |-> "", message |-> ""] }
NoError == [errorCode |-> "", message |-> "<none>"]
MsalOutcomes ==
    [kind : {"token", "noToken"}, error : {NoError}] \cup [kind : {"throws"}, error : MsalErrors]

\* What a fetch of Microsoft Graph /me or /users/{name} can do.
GraphUserOutcomes ==
    [kind : {"ok"}, userPrincipalName : {"alice", "ALICE", "bob", NULL}]
      \cup [kind : {"notFound", "serverError", "throws"}, userPrincipalName : {NULL}]

\* The directory objects /me/memberOf can return: groups, a group whose
\* displayName is null, and a directory role.
DirectoryObjects ==
    [odataType : {"#microsoft.graph.group"}, displayName : {tx, zP1VR, Undefined}]
      \cup [odataType : {"#microsoft.graph.directoryRole"}, displayName : {tx}]
MaxDirectoryObjects == 2
MemberOfOutcomes ==
    [kind : {"ok"}, value : SeqsUpTo(DirectoryObjects, MaxDirectoryObjects)]
      \cup [kind : {"notOk", "throws"}, value : {<<>>}]

\* The teams repos.listTeams can return; a permission the upstream omits is NULL.
ApiTeams ==
    { [name |-> TX, permission |-> "push"], [name |-> TX, permission |-> "pull"],
      [name |-> TX, permission |-> NULL], [name |-> zP1MA, permission |-> "admin"] }
MaxApiTeams == 2
ListTeamsOutcomes ==
    [kind : {"ok"}, data : SeqsUpTo(ApiTeams, MaxApiTeams)]
      \cup [kind : {"throws"}, data : {<<>>}]

InstallationToken == <<"ghs_", "installation-token">>
MockAccessToken == "mock_access_token_"
LookupMockToken == "lookup_mock_token_"
AppOnlyToken == "graph-app-only-token"
UserToken == "graph-user-token"
MockGitHubToken == <<"ghs_mock_token_for_development_">>
NoToken == <<>>

\* ------------------------------------------------------------------------
\* State
\* ------------------------------------------------------------------------
VARIABLES
    env,                 \* process.env
    config,              \* CredentialService.config: [groupPattern, teamPattern]
    gitHubInitialized,   \* CredentialService.gitHubInitialized (= GitHubService.isReady())
    msalInstance,        \* CredentialService.msalInstance is not null
    publicMsalInstance,  \* CredentialService.publicMsalInstance is not null
    rq,                  \* the requests in flight, one record per handler invocation
    mGroups,             \* matcher harness: the filteredGroups argument
    mTeams,              \* matcher harness: the filteredTeams argument
    mPermission,         \* matcher harness: the value calculatePermissions returned
    mScopes,             \* matcher harness: the scopes getTokenScopes returned for it
    mPhase,              \* matcher harness: "idle" before the call, "returned" after
    fGroups,             \* filter harness: the groups argument of filterGroupsByPattern
    fTeams,              \* filter harness: the teams argument of filterTeamsByPattern
    fGroupsOut,          \* filter harness: the value filterGroupsByPattern returned
    fTeamsOut,           \* filter harness: the value filterTeamsByPattern returned
    fPhase,              \* filter harness: "idle" before the calls, "returned" after
    seen                 \* concurrent requests: per request, the body received and the
                         \* answers its upstream calls gave, in order

serviceVars == <<env, config, gitHubInitialized, msalInstance, publicMsalInstance>>
matcherVars == <<mGroups, mTeams, mPermission, mScopes, mPhase>>
filterVars == <<fGroups, fTeams, fGroupsOut, fTeamsOut, fPhase>>
harnessVars == <<matcherVars, filterVars, seen>>
vars == <<serviceVars, rq, harnessVars>>

\* The handler invocations the model follows.
Slots == {"h1"}

\* CredentialService.initialize and initializeMsal: the fields after startup.
initialize(e) ==
    [config |-> [groupPattern |-> e.patterns.groupPattern, teamPattern |-> e.patterns.teamPattern],
     msalInstance |-> e.AZURE_CLIENT_ID /\ e.AZURE_CLIENT_SECRET,
     publicMsalInstance |-> e.AZURE_CLIENT_ID,
     gitHubInitialized |-> e.GITHUB_APP]

\* GitHubService.isReady.
isReady == gitHubInitialized

\* A handler invocation that has not received a request.
NoBody == [keys |-> {}, success |-> FALSE, token |-> NoToken, error |-> NULL, scopes |-> <<>>,
           permissions |-> NULL, userGroups |-> <<>>, matchingTeams |-> <<>>,
           expiresAt |-> NULL]
NoIssue == [called |-> FALSE, repositories |-> <<>>, organization |-> NULL,
            permissions |-> tokenPermissions]
\* No answer of Microsoft Graph about the user has been received.
NoGraphUser == [kind |-> "none", userPrincipalName |-> NULL]
IdleRequest ==
    [pc |-> "idle",
     request |-> [username |-> "", password |-> <<>>, repository |-> "", organization |-> NULL],
     validated |-> FALSE,
     strategy |-> "none",
     grantToken |-> NULL,
     upstreamError |-> NoError,
     graphUser |-> NoGraphUser,
     groupsFetch |-> "none",
     teamsFetch |-> "none",
     authResult |-> [returned |-> FALSE, success |-> FALSE, accessToken |-> NULL, error |-> NULL],
     matchingGroups |-> <<>>,
     teamsQuery |-> [owner |-> NULL, repo |-> NULL],
     matchingTeams |-> <<>>,
     permission |-> NULL,
     scopes |-> <<>>,
     tokenQuery |-> [called |-> FALSE, repository |-> NULL, organization |-> NULL],
     issue |-> NoIssue,
     result |-> NoBody,
     status |-> 0,
     body |-> NoBody,
     calls |-> <<>>]

\* ------------------------------------------------------------------------
\* The POST /api/validate-credentials handler (express-server.ts and the
\* standalone server): the part after validateCredentials has returned
\* ------------------------------------------------------------------------
\* handlerRespond answering every result with the default status.
handlerRespond_alwaysOk(r, result) ==
    [r EXCEPT !.pc = "done", !.result = result, !.status = 200,
              !.body = [NoBody EXCEPT !.keys = {"success", "error"},
                                      !.success = result.success, !.error = result.error]]

handlerRespond(r, result) ==
    IF result.success
    THEN [r EXCEPT !.pc = "done", !.result = result, !.status = 200,
                   !.body = [NoBody EXCEPT !.keys = {"success", "token", "scopes", "expiresAt"},
                                           !.success = TRUE, !.token = result.token,
                                           !.scopes = result.scopes, !.expiresAt = "now+1h"]]
    ELSE [r EXCEPT !.pc = "done", !.result = result, !.status = 401,
                   !.body = [NoBody EXCEPT !.keys = {"success", "error"},
                                           !.success = FALSE, !.error = result.error]]

\* failure returning no error text.
failure_noError(error) == [NoBody EXCEPT !.keys = {"success"}, !.error = NULL]

\* The values validateCredentials returns.
failure(error) == [NoBody EXCEPT !.keys = {"success", "error"}, !.error = error]
denial(error, groups, teams) ==
    [NoBody EXCEPT !.keys = {"success", "error", "userGroups", "matchingTeams"},
                   !.error = error, !.userGroups = groups,
                   !.matchingTeams = [i \in 1..Len(teams) |-> teams[i].name]]
success(token, scopes, permission, groups, teams) ==
    [NoBody EXCEPT !.keys = {"success", "token", "scopes", "permissions", "userGroups",
                             "matchingTeams"},
                   !.success = TRUE, !.token = token, !.scopes = scopes,
                   !.permissions = permission, !.userGroups = groups,
                   !.matchingTeams = [i \in 1..Len(teams) |-> teams[i].name]]

\* ------------------------------------------------------------------------
\* CredentialService.validateCredentials, from its last step to its first
\* ------------------------------------------------------------------------
\* Step 8 returned: githubToken is the token or NoToken (null).
afterToken(r, githubToken) ==
    IF githubToken = NoToken
    THEN handlerRespond(r, failure("Token generation failed"))
    ELSE handlerRespond(r, success(githubToken, r.scopes, r.permission,
                                   r.matchingGroups, r.matchingTeams))

\* Step 8: generateScopedToken(request.repository, request.organization) up
\* to its first suspension, GitHubService.getInstallationId.
generateScopedToken(r) ==
    LET r1 == [r EXCEPT !.calls = Append(@, "generateScopedToken")]
        \* gitHubService.generateInstallationToken(repository, organization, ...)
        r2 == [r1 EXCEPT !.tokenQuery = [called |-> TRUE,
                                         repository |-> r.request.repository,
                                         organization |-> r.request.organization]]
    IN IF ~gitHubInitialized \/ ~isReady
       THEN afterToken(r1, MockGitHubToken)
       ELSE IF r.request.organization # NULL
       THEN [r2 EXCEPT !.pc = "installation"]
       ELSE \* no organization and no owner/ in the repository: no installation
            afterToken(r2, NoToken)

\* afterTeams without the "if (!permission) return" of the denial.
afterTeams_noDenial(r, repoTeams) ==
    LET matchingTeams == filterTeamsByPattern(repoTeams, config)
        permission == calculatePermissions(r.matchingGroups, matchingTeams, config)
        r1 == [r EXCEPT !.matchingTeams = matchingTeams,
                        !.calls = Append(@, "calculatePermissions")]
    IN IF permission = TypeError
       THEN handlerRespond(r1, failure("Internal server error"))
       ELSE generateScopedToken(
                [r1 EXCEPT !.permission = permission,
                           !.scopes = <<"repo:status", "public_repo">>,
                           !.calls = Append(@, "getTokenScopes")])

\* Steps 5 to 7: the repository teams are in; filter, match, map scopes.
afterTeams(r, repoTeams) ==
    LET matchingTeams == filterTeamsByPattern(repoTeams, config)
        permission == calculatePermissions(r.matchingGroups, matchingTeams, config)
        r1 == [r EXCEPT !.matchingTeams = matchingTeams,
                        !.calls = Append(@, "calculatePermissions")]
    IN IF permission = TypeError
       THEN handlerRespond(r1, failure("Internal server error"))
       ELSE IF permission = NULL
       THEN handlerRespond(r1,
                denial("User not authorized - no matching EntraID groups and GitHub teams found",
                       r.matchingGroups, matchingTeams))
       ELSE generateScopedToken(
                [r1 EXCEPT !.permission = permission,
                           !.scopes = getTokenScopes(permission),
                           !.calls = Append(@, "getTokenScopes")])

\* CredentialService.getRepositoryTeams: the mapping of the teams fetched.
teamPermissions(teams) ==
    [i \in 1..Len(teams) |->
        [name |-> teams[i].name,
         permission |-> IF teams[i].permission = NULL THEN "read" ELSE teams[i].permission]]

\* afterGroups ending the request as a denial, without asking for the
\* repository's teams, when the user has no group left.
afterGroups_skipsTeamsWithoutGroups(r, userGroups) ==
    LET r1 == [r EXCEPT !.matchingGroups = filterGroupsByPattern(userGroups, config)]
        r2 == [r1 EXCEPT !.teamsQuery = [owner |-> IF r.request.organization = NULL
                                                   THEN "default-org"
                                                   ELSE r.request.organization,
                                         repo |-> r.request.repository],
                         !.calls = Append(@, "getRepositoryTeams")]
    IN IF r1.matchingGroups = <<>>
       THEN handlerRespond([r1 EXCEPT !.calls = Append(@, "calculatePermissions")],
                denial("User not authorized - no matching EntraID groups and GitHub teams found",
                       <<>>, <<>>))
       ELSE IF ~isReady THEN afterTeams([r2 EXCEPT !.teamsFetch = "notReady"], teamPermissions(<<>>))
       ELSE [r2 EXCEPT !.pc = "teams"]

\* afterGroups asking for the repository's teams whether or not the GitHub
\* App is ready.
afterGroups_noReadyCheck(r, userGroups) ==
    [r EXCEPT !.matchingGroups = filterGroupsByPattern(userGroups, config),
              !.teamsQuery = [owner |-> IF r.request.organization = NULL
                                        THEN "default-org"
                                        ELSE r.request.organization,
                              repo |-> r.request.repository],
              !.calls = Append(@, "getRepositoryTeams"),
              !.pc = "teams"]

\* Steps 3 and 4: the user's groups are in; filter them and ask for the
\* repository's teams (GitHubService.getRepositoryTeams answers [] at once
\* when the GitHub App is not ready).
afterGroups(r, userGroups) ==
    LET r1 == [r EXCEPT !.matchingGroups = filterGroupsByPattern(userGroups, config),
                        !.teamsQuery = [owner |-> IF r.request.organization = NULL
                                                  THEN "default-org"
                                                  ELSE r.request.organization,
                                        repo |-> r.request.repository],
                        !.calls = Append(@, "getRepositoryTeams")]
    IN IF ~isReady THEN afterTeams([r1 EXCEPT !.teamsFetch = "notReady"], teamPermissions(<<>>))
       ELSE [r1 EXCEPT !.pc = "teams"]

\* The AuthenticationResult values.
authSuccess(token) == [returned |-> TRUE, success |-> TRUE, accessToken |-> token, error |-> NULL]
authFailure(error) == [returned |-> TRUE, success |-> FALSE, accessToken |-> NULL, error |-> error]

\* afterAuth without the "if (!authResult.success) return" of the failure.
afterAuth_noFailureReturn(r, authResult) ==
    [r EXCEPT !.authResult = authResult, !.pc = "groups",
              !.calls = Append(@, "getUserGroups")]

\* Steps 1 and 2: authenticateWithEntraID returned authResult.
afterAuth(r, authResult) ==
    LET r1 == [r EXCEPT !.authResult = authResult]
    IN IF ~authResult.success
       THEN handlerRespond(r1, failure(IF authResult.error \in {NULL, ""}
                                       THEN "Authentication failed" ELSE authResult.error))
       ELSE IF authResult.accessToken \in {NULL, ""}
       THEN handlerRespond(r1, failure("Access token not available"))
       ELSE [r1 EXCEPT !.pc = "groups", !.calls = Append(@, "getUserGroups")]

\* ------------------------------------------------------------------------
\* The authentication strategies, up to their first suspension
\* ------------------------------------------------------------------------
\* isValidUser without the wildcard.
isValidUser_noWildcard(username) ==
    LET validUsers == IF env.TEST_VALID_USERS.set THEN split(env.TEST_VALID_USERS.value) ELSE <<>>
    IN username \in Range(validUsers)

\* mockAuthentication: validUsers.includes(username) || validUsers.includes("*").
isValidUser(username) ==
    LET validUsers == IF env.TEST_VALID_USERS.set THEN split(env.TEST_VALID_USERS.value) ELSE <<>>
    IN username \in Range(validUsers) \/ "*" \in Range(validUsers)

\* userLookupAuthentication issuing the development token in every environment.
userLookupAuthentication_devAlways(r) ==
    IF ~msalInstance
    THEN afterAuth(r, authSuccess(LookupMockToken))
    ELSE [r EXCEPT !.pc = "clientCredential"]

userLookupAuthentication(r) ==
    IF ~msalInstance
    THEN IF env.NODE_ENV = "development"
         THEN afterAuth(r, authSuccess(LookupMockToken))
         ELSE afterAuth(r, authFailure("MSAL not configured"))
    ELSE [r EXCEPT !.pc = "clientCredential"]

fullROPCAuthentication(r) ==
    IF ~publicMsalInstance
    THEN afterAuth(r, authFailure("ROPC not configured"))
    ELSE [r EXCEPT !.pc = "ropcGrant"]

\* authenticateWithEntraID whose default case is the mock strategy.
authenticateWithEntraID_defaultMock(r) ==
    LET authMethod == IF env.ENTRAID_AUTH_METHOD = NULL THEN "lookup" ELSE env.ENTRAID_AUTH_METHOD
    IN CASE authMethod = "mock" -> [r EXCEPT !.pc = "mockDelay", !.strategy = "mock"]
         [] authMethod = "lookup" -> userLookupAuthentication([r EXCEPT !.strategy = "lookup"])
         [] authMethod = "ropc" -> fullROPCAuthentication([r EXCEPT !.strategy = "ropc"])
         [] OTHER -> [r EXCEPT !.pc = "mockDelay", !.strategy = "mock"]

\* authenticateWithEntraID: process.env.ENTRAID_AUTH_METHOD || "lookup"; the
\* strategy function it calls is recorded.
authenticateWithEntraID(r) ==
    LET authMethod == IF env.ENTRAID_AUTH_METHOD = NULL THEN "lookup" ELSE env.ENTRAID_AUTH_METHOD
    IN CASE authMethod = "mock" -> [r EXCEPT !.pc = "mockDelay", !.strategy = "mock"]
         [] authMethod = "lookup" -> userLookupAuthentication([r EXCEPT !.strategy = "lookup"])
         [] authMethod = "ropc" -> fullROPCAuthentication([r EXCEPT !.strategy = "ropc"])
         [] OTHER -> userLookupAuthentication([r EXCEPT !.strategy = "lookup"])

\* error.message || "Authentication failed"
messageOr(error) == IF error.message = "" THEN "Authentication failed" ELSE error.message

\* ------------------------------------------------------------------------
\* The handler entry and the resumptions of validateCredentials, as
\* functions of the request's own record and of what the awaited call gave
\* ------------------------------------------------------------------------
\* POST /api/validate-credentials arrives with body: the required-field
\* check, then validateCredentials up to the first suspension of the
\* selected strategy.
onRequest(body) ==
    IF body.username = "" \/ body.password = <<>> \/ body.repository = ""
    THEN [IdleRequest EXCEPT
              !.pc = "done", !.request = body, !.status = 400,
              !.body = [NoBody EXCEPT
                  !.keys = {"success", "error"},
                  !.error = "Missing required fields: username, password, repository"]]
    ELSE authenticateWithEntraID(
             [IdleRequest EXCEPT !.request = body, !.validated = TRUE,
                                 !.calls = <<"authenticateWithEntraID">>])

\* mockAuthentication after its delay.
onMockDelay(r) ==
    IF isValidUser(r.request.username)
    THEN afterAuth(r, authSuccess(MockAccessToken))
    ELSE afterAuth(r, authFailure("Invalid credentials"))

\* userLookupAuthentication after acquireTokenByClientCredential.
onClientCredential(r, o) ==
    CASE o.kind = "token" -> [r EXCEPT !.pc = "userLookup", !.grantToken = AppOnlyToken]
      [] o.kind = "noToken" -> afterAuth(r, authFailure("Failed to acquire access token"))
      [] OTHER -> afterAuth([r EXCEPT !.upstreamError = o.error], authFailure(messageOr(o.error)))

\* userLookupAuthentication after lookupUserInGraph (the body of the answer
\* is only logged, so only its kind is kept).
onUserLookup(r, o) ==
    LET r1 == [r EXCEPT !.graphUser = [kind |-> o.kind, userPrincipalName |-> NULL]]
    IN IF o.kind = "ok"
       THEN afterAuth(r1, authSuccess(r1.grantToken))
       ELSE afterAuth(r1, authFailure("User not found in directory"))

\* fullROPCAuthentication after acquireTokenByUsernamePassword.
onRopcGrant(r, o) ==
    CASE o.kind = "token" -> [r EXCEPT !.pc = "verifyToken", !.grantToken = UserToken]
      [] o.kind = "noToken" -> afterAuth(r, authFailure("No access token received"))
      [] OTHER -> afterAuth([r EXCEPT !.upstreamError = o.error], authFailure(messageOr(o.error)))

\* fullROPCAuthentication after verifyTokenWithGraph.
onVerifyToken(r, o) ==
    LET r1 == [r EXCEPT !.graphUser = o]
    IN IF /\ o.kind = "ok"
          /\ o.userPrincipalName # NULL
          /\ lowerName(o.userPrincipalName) = lowerName(r1.request.username)
       THEN afterAuth(r1, authSuccess(r1.grantToken))
       ELSE afterAuth(r1, authFailure("Token verification failed"))

\* getUserGroups: the fetch of /me/memberOf settles; only groups are kept.
groupsOf(o) ==
    IF o.kind = "ok"
    THEN LET kept == SelectSeq(o.value, LAMBDA item : item.odataType = "#microsoft.graph.group")
         IN [i \in 1..Len(kept) |-> kept[i].displayName]
    ELSE <<>>

\* validateCredentials after getUserGroups.
onUserGroups(r, o) ==
    afterGroups([r EXCEPT !.groupsFetch = IF o.kind = "ok" THEN "ok" ELSE "failed"], groupsOf(o))

\* validateCredentials after getRepositoryTeams ([] on any error).
onRepositoryTeams(r, o) ==
    afterTeams([r EXCEPT !.teamsFetch = IF o.kind = "ok" THEN "ok" ELSE "failed"],
               teamPermissions(IF o.kind = "ok" THEN o.data ELSE <<>>))

\* generateInstallationToken after getInstallationId: with an id the token
\* is requested from apps.createInstallationAccessToken.
onInstallation(r, found) ==
    IF found
    THEN [r EXCEPT !.pc = "createToken",
                   !.issue = [called |-> TRUE,
                              repositories |-> <<r.request.repository>>,
                              organization |-> r.request.organization,
                              permissions |-> tokenPermissions],
                   !.calls = Append(@, "createInstallationAccessToken")]
    ELSE afterToken(r, NoToken)

\* generateInstallationToken after createInstallationAccessToken.
onCreateToken(r, minted) == afterToken(r, IF minted THEN InstallationToken ELSE NoToken)

\* ------------------------------------------------------------------------
\* Actions: one per handler entry and per resumption after a suspension
\* ------------------------------------------------------------------------
\* ReceiveRequest whose required-field check forgets the password.
ReceiveRequest_noPasswordCheck(s) ==
    /\ rq[s].pc = "idle"
    /\ \E body \in RequestBodies :
          rq' = [rq EXCEPT ![s] =
                    IF body.username = "" \/ body.repository = ""
                    THEN [IdleRequest EXCEPT
                              !.pc = "done", !.request = body, !.status = 400,
                              !.body = [NoBody EXCEPT
                                  !.keys = {"success", "error"},
                                  !.error = "Missing required fields: username, password, repository"]]
                    ELSE authenticateWithEntraID(
                             [IdleRequest EXCEPT !.request = body, !.validated = TRUE,
                                                 !.calls = <<"authenticateWithEntraID">>])]
    /\ UNCHANGED <<serviceVars, harnessVars>>

\* POST /api/validate-credentials arrives: the required-field check, then
\* validateCredentials up to the first suspension of the selected strategy.
ReceiveRequest(s) ==
    /\ rq[s].pc = "idle"
    /\ \E body \in RequestBodies : rq' = [rq EXCEPT ![s] = onRequest(body)]
    /\ UNCHANGED <<serviceVars, harnessVars>>

\* mockAuthentication: the simulated network delay is over.
MockDelayElapsed(s) ==
    /\ rq[s].pc = "mockDelay"
    /\ rq' = [rq EXCEPT ![s] = onMockDelay(rq[s])]
    /\ UNCHANGED <<serviceVars, harnessVars>>

\* ClientCredentialReturns asking for the token again when the call threw.
ClientCredentialReturns_retries(s) ==
    /\ rq[s].pc = "clientCredential"
    /\ \E o \in MsalOutcomes :
          rq' = [rq EXCEPT ![s] =
                    CASE o.kind = "token" -> [rq[s] EXCEPT !.pc = "userLookup",
                                                            !.grantToken = AppOnlyToken]
                      [] o.kind = "noToken" ->
                            afterAuth(rq[s], authFailure("Failed to acquire access token"))
                      [] OTHER -> [rq[s] EXCEPT !.upstreamError = o.error]]
    /\ UNCHANGED <<serviceVars, harnessVars>>

\* userLookupAuthentication: acquireTokenByClientCredential settles.
ClientCredentialReturns(s) ==
    /\ rq[s].pc = "clientCredential"
    /\ \E o \in MsalOutcomes : rq' = [rq EXCEPT ![s] = onClientCredential(rq[s], o)]
    /\ UNCHANGED <<serviceVars, harnessVars>>

\* lookupUserInGraph: the fetch of /users/{username} settles.
UserLookupReturns(s) ==
    /\ rq[s].pc = "userLookup"
    /\ \E o \in GraphUserOutcomes : rq' = [rq EXCEPT ![s] = onUserLookup(rq[s], o)]
    /\ UNCHANGED <<serviceVars, harnessVars>>

\* fullROPCAuthentication: acquireTokenByUsernamePassword settles.
RopcGrantReturns(s) ==
    /\ rq[s].pc = "ropcGrant"
    /\ \E o \in MsalOutcomes : rq' = [rq EXCEPT ![s] = onRopcGrant(rq[s], o)]
    /\ UNCHANGED <<serviceVars, harnessVars>>

\* VerifyTokenReturns accepting whatever principal the profile names.
VerifyTokenReturns_anyPrincipal(s) ==
    /\ rq[s].pc = "verifyToken"
    /\ \E o \in GraphUserOutcomes :
          LET r == [rq[s] EXCEPT !.graphUser = o]
          IN rq' = [rq EXCEPT ![s] =
                       IF o.kind = "ok"
                       THEN afterAuth(r, authSuccess(r.grantToken))
                       ELSE afterAuth(r, authFailure("Token verification failed"))]
    /\ UNCHANGED <<serviceVars, harnessVars>>

\* verifyTokenWithGraph: the fetch of /me settles.
VerifyTokenReturns(s) ==
    /\ rq[s].pc = "verifyToken"
    /\ \E o \in GraphUserOutcomes : rq' = [rq EXCEPT ![s] = onVerifyToken(rq[s], o)]
    /\ UNCHANGED <<serviceVars, harnessVars>>

\* getUserGroups: the fetch of /me/memberOf settles.
UserGroupsReturn(s) ==
    /\ rq[s].pc = "groups"
    /\ \E o \in MemberOfOutcomes : rq' = [rq EXCEPT ![s] = onUserGroups(rq[s], o)]
    /\ UNCHANGED <<serviceVars, harnessVars>>

\* RepositoryTeamsReturn letting the error of the fetch reach the catch of
\* validateCredentials.
RepositoryTeamsReturn_rethrows(s) ==
    /\ rq[s].pc = "teams"
    /\ \E o \in ListTeamsOutcomes :
          rq' = [rq EXCEPT ![s] =
                    IF o.kind = "ok"
                    THEN afterTeams([rq[s] EXCEPT !.teamsFetch = "ok"], teamPermissions(o.data))
                    ELSE handlerRespond([rq[s] EXCEPT !.teamsFetch = "failed"],
                                        failure("Internal server error"))]
    /\ UNCHANGED <<serviceVars, harnessVars>>

\* getRepositoryTeams: GitHubService.getRepositoryTeams settles ([] on any error).
RepositoryTeamsReturn(s) ==
    /\ rq[s].pc = "teams"
    /\ \E o \in ListTeamsOutcomes : rq' = [rq EXCEPT ![s] = onRepositoryTeams(rq[s], o)]
    /\ UNCHANGED <<serviceVars, harnessVars>>

\* InstallationReturns marking the GitHub App as not initialized when no
\* installation is found.
InstallationReturns_marksUninitialized(s) ==
    /\ rq[s].pc = "installation"
    /\ \E found \in BOOLEAN :
          /\ rq' = [rq EXCEPT ![s] =
                       IF found
                       THEN [rq[s] EXCEPT
                                 !.pc = "createToken",
                                 !.issue = [called |-> TRUE,
                                            repositories |-> <<rq[s].request.repository>>,
                                            organization |-> rq[s].request.organization,
                                            permissions |-> tokenPermissions],
                                 !.calls = Append(@, "createInstallationAccessToken")]
                       ELSE afterToken(rq[s], NoToken)]
          /\ gitHubInitialized' = (gitHubInitialized /\ found)
    /\ UNCHANGED <<env, config, msalInstance, publicMsalInstance, harnessVars>>

\* generateInstallationToken: getInstallationId settles; with an id the
\* token is requested from apps.createInstallationAccessToken.
InstallationReturns(s) ==
    /\ rq[s].pc = "installation"
    /\ \E found \in BOOLEAN : rq' = [rq EXCEPT ![s] = onInstallation(rq[s], found)]
    /\ UNCHANGED <<serviceVars, harnessVars>>

\* generateInstallationToken: createInstallationAccessToken settles.
CreateTokenReturns(s) ==
    /\ rq[s].pc = "createToken"
    /\ \E minted \in BOOLEAN : rq' = [rq EXCEPT ![s] = onCreateToken(rq[s], minted)]
    /\ UNCHANGED <<serviceVars, harnessVars>>

\* The response has been written and the handler invocation is over.
HandlerReturns(s) ==
    /\ rq[s].pc = "done"
    /\ rq' = [rq EXCEPT ![s] = IdleRequest]
    /\ UNCHANGED <<serviceVars, harnessVars>>

\* The filter harness before its calls.
FilterIdle ==
    /\ fGroups = <<>> /\ fTeams = <<>> /\ fGroupsOut = <<>> /\ fTeamsOut = <<>>
    /\ fPhase = "idle"

\* The matcher harness before its call.
MatcherIdle ==
    /\ mGroups = <<>> /\ mTeams = <<>> /\ mPermission = NULL /\ mScopes = <<>>
    /\ mPhase = "idle"

\* The service after startup: initialize has run on the environment.
Init ==
    /\ env \in Environments
    /\ config = initialize(env).config
    /\ gitHubInitialized = initialize(env).gitHubInitialized
    /\ msalInstance = initialize(env).msalInstance
    /\ publicMsalInstance = initialize(env).publicMsalInstance
    /\ rq = [s \in Slots |-> IdleRequest]
    /\ mGroups = <<>> /\ mTeams = <<>> /\ mPermission = NULL /\ mScopes = <<>>
    /\ mPhase = "idle"
    /\ FilterIdle
    /\ seen = <<>>

Next ==
    \E s \in Slots :
        \/ ReceiveRequest(s)
        \/ MockDelayElapsed(s)
        \/ ClientCredentialReturns(s)
        \/ UserLookupReturns(s)
        \/ RopcGrantReturns(s)
        \/ VerifyTokenReturns(s)
        \/ UserGroupsReturn(s)
        \/ RepositoryTeamsReturn(s)
        \/ InstallationReturns(s)
        \/ CreateTokenReturns(s)
        \/ HandlerReturns(s)

Spec == Init /\ [][Next]_vars

\* ------------------------------------------------------------------------
\* The matcher on its own: steps 6 and 7 of validateCredentials
\* (calculatePermissions, then getTokenScopes on the permission it returned)
\* applied to every pair of lists within the bounds, under every pattern
\* configuration.
\* ------------------------------------------------------------------------
InitMatcher ==
    /\ env \in { e \in Environments : /\ e.ENTRAID_AUTH_METHOD = NULL /\ ~e.AZURE_CLIENT_ID
                                       /\ e.NODE_ENV = "production" /\ ~e.GITHUB_APP }
    /\ config = initialize(env).config
    /\ gitHubInitialized = initialize(env).gitHubInitialized
    /\ msalInstance = initialize(env).msalInstance
    /\ publicMsalInstance = initialize(env).publicMsalInstance
    /\ rq = [s \in Slots |-> IdleRequest]
    /\ mGroups \in SeqsUpTo(GroupNames, MaxGroups)
    /\ mTeams = <<>>
    /\ mPermission = NULL
    /\ mScopes = <<>>
    /\ mPhase = "idle"
    /\ FilterIdle
    /\ seen = <<>>

Calculate ==
    /\ mPhase = "idle"
    /\ \E teams \in SeqsUpTo(Teams, MaxTeams) :
          /\ mTeams' = teams
          /\ mPermission' = calculatePermissions(mGroups, teams, config)
          /\ mScopes' = IF mPermission' \in {NULL, TypeError} THEN <<>>
                        ELSE getTokenScopes(mPermission')
    /\ mPhase' = "returned"
    /\ UNCHANGED <<serviceVars, rq, mGroups, filterVars, seen>>

NextMatcher == Calculate

SpecMatcher == InitMatcher /\ [][NextMatcher]_vars

\* ------------------------------------------------------------------------
\* The pattern filter on its own: steps 3 and 5 of validateCredentials
\* (filterGroupsByPattern, filterTeamsByPattern) applied to every pair of
\* lists within the bounds, under every pattern configuration, including a
\* GROUP_PATTERN that does not compile and a TEAM_PATTERN (^t(\d*)) that
\* matches the team TX only when case is ignored.
\* ------------------------------------------------------------------------
\* The group names getUserGroups can hand over: a displayName may be null.
FilterGroupNames == GroupNames \cup {TX, Undefined}
\* The teams getRepositoryTeams can hand over.
FilterTeams == [name : TeamNames, permission : {"read", "admin"}]
FilterConfigs ==
    PatternConfigs \cup { [groupPattern |-> Invalid, teamPattern |-> Unset],
                          [groupPattern |-> LooseGroupPattern, teamPattern |-> LooseGroupPattern] }

InitFilter ==
    /\ env \in { [e EXCEPT !.patterns = p] :
                    e \in { e \in Environments : /\ e.ENTRAID_AUTH_METHOD = NULL /\ ~e.AZURE_CLIENT_ID
                                                  /\ e.NODE_ENV = "production" /\ ~e.GITHUB_APP
                                                  /\ e.patterns.groupPattern = Unset },
                    p \in FilterConfigs }
    /\ config = initialize(env).config
    /\ gitHubInitialized = initialize(env).gitHubInitialized
    /\ msalInstance = initialize(env).msalInstance
    /\ publicMsalInstance = initialize(env).publicMsalInstance
    /\ rq = [s \in Slots |-> IdleRequest]
    /\ mGroups = <<>> /\ mTeams = <<>> /\ mPermission = NULL /\ mScopes = <<>>
    /\ mPhase = "idle"
    /\ fGroups \in SeqsUpTo(FilterGroupNames, MaxGroups)
    /\ fTeams = <<>> /\ fGroupsOut = <<>> /\ fTeamsOut = <<>>
    /\ fPhase = "idle"
    /\ seen = <<>>

Filter ==
    /\ fPhase = "idle"
    /\ \E teams \in SeqsUpTo(FilterTeams, MaxTeams) :
          /\ fTeams' = teams
          /\ fTeamsOut' = filterTeamsByPattern(teams, config)
    /\ fGroupsOut' = filterGroupsByPattern(fGroups, config)
    /\ fPhase' = "returned"
    /\ UNCHANGED <<serviceVars, rq, matcherVars, fGroups, seen>>

NextFilter == Filter

SpecFilter == InitFilter /\ [][NextFilter]_vars

\* ------------------------------------------------------------------------
\* Two requests in flight: the event loop runs one handler invocation until
\* its next await and then any invocation whose awaited call has settled.
\* Every request's body and upstream answers are kept in seen, so that its
\* outcome can be compared with the outcome of the same request served on
\* its own with the same answers.  The universes are small: two users, one
\* repository, two or three answers per upstream call.
\* ------------------------------------------------------------------------
PairSlots == {"h1", "h2"}

PairBodies ==
    [username : {"alice", "bob"}, password : {PlainPassword}, repository : {"r"},
     organization : {"o"}]

\* One environment per strategy and pattern setting, all with the GitHub App.
PairEnvironments ==
    { e \in Environments :
        /\ e.GITHUB_APP
        /\ e.ENTRAID_AUTH_METHOD \in {"mock", "lookup", "ropc"}
        /\ e.ENTRAID_AUTH_METHOD = "mock" => e.TEST_VALID_USERS.value = <<"alice", ",", " bob">>
        /\ e.ENTRAID_AUTH_METHOD # "mock" => e.AZURE_CLIENT_ID
        /\ e.patterns \in { [groupPattern |-> Unset, teamPattern |-> Unset],
                             [groupPattern |-> ReadmeGroupPattern,
                              teamPattern |-> ReadmeTeamPattern] } }

\* What the call awaited in a position can answer.
PairAnswers(position) ==
    CASE position = "mockDelay" -> { [kind |-> "elapsed"] }
      [] position \in {"clientCredential", "ropcGrant"} ->
            { o \in MsalOutcomes : o.kind = "token" \/ o.error.errorCode = "invalid_grant" }
      [] position \in {"userLookup", "verifyToken"} ->
            { [kind |-> "ok", userPrincipalName |-> "alice"],
              [kind |-> "notFound", userPrincipalName |-> NULL] }
      [] position = "groups" ->
            { [kind |-> "ok",
               value |-> << [odataType |-> "#microsoft.graph.group", displayName |-> tx] >>],
              [kind |-> "ok",
               value |-> << [odataType |-> "#microsoft.graph.group", displayName |-> zP1VR],
                            [odataType |-> "#microsoft.graph.directoryRole", displayName |-> tx] >>],
              [kind |-> "notOk", value |-> <<>>] }
      [] position = "teams" ->
            { [kind |-> "ok", data |-> << [name |-> TX, permission |-> "push"] >>],
              [kind |-> "ok", data |-> << [name |-> zP1MA, permission |-> "admin"],
                                          [name |-> TX, permission |-> NULL] >>],
              [kind |-> "throws", data |-> <<>>] }
      [] position = "installation" -> { [kind |-> "found"], [kind |-> "notFound"] }
      [] position = "createToken" -> { [kind |-> "minted"], [kind |-> "failed"] }
      [] OTHER -> {}

\* The resumption of a request waiting in r.pc when the awaited call answers o.
resume(r, o) ==
    CASE r.pc = "mockDelay" -> onMockDelay(r)
      [] r.pc = "clientCredential" -> onClientCredential(r, o)
      [] r.pc = "userLookup" -> onUserLookup(r, o)
      [] r.pc = "ropcGrant" -> onRopcGrant(r, o)
      [] r.pc = "verifyToken" -> onVerifyToken(r, o)
      [] r.pc = "groups" -> onUserGroups(r, o)
      [] r.pc = "teams" -> onRepositoryTeams(r, o)
      [] r.pc = "installation" -> onInstallation(r, o.kind = "found")
      [] r.pc = "createToken" -> onCreateToken(r, o.kind = "minted")
      [] OTHER -> r

\* No request received.
NoRun == [body |-> IdleRequest.request, answers |-> <<>>, after |-> {}]

InitPair ==
    /\ env \in PairEnvironments
    /\ config = initialize(env).config
    /\ gitHubInitialized = initialize(env).gitHubInitialized
    /\ msalInstance = initialize(env).msalInstance
    /\ publicMsalInstance = initialize(env).publicMsalInstance
    /\ rq = [s \in PairSlots |-> IdleRequest]
    /\ MatcherIdle
    /\ FilterIdle
    /\ seen = [s \in PairSlots |-> NoRun]

\* A request arrives while the other one is idle, in flight or answered;
\* after holds the requests already answered.
RequestArrives(s) ==
    /\ rq[s].pc = "idle"
    /\ \E body \in PairBodies :
          /\ rq' = [rq EXCEPT ![s] = onRequest(body)]
          /\ seen' = [seen EXCEPT ![s] =
                          [body |-> body, answers |-> <<>>,
                           after |-> { t \in PairSlots : rq[t].pc = "done" }]]
    /\ UNCHANGED <<serviceVars, matcherVars, filterVars>>

\* CallSettles in which the groups of a request are a field of the service: a
\* request about to fetch its teams gets the groups the settling request
\* has just stored.
CallSettles_sharedGroups(s) ==
    /\ \E o \in PairAnswers(rq[s].pc) :
          LET new == resume(rq[s], o)
          IN /\ rq' = [t \in PairSlots |->
                          IF t = s THEN new
                          ELSE IF rq[t].pc = "teams" /\ new.pc = "teams"
                          THEN [rq[t] EXCEPT !.matchingGroups = new.matchingGroups]
                          ELSE rq[t]]
             /\ seen' = [seen EXCEPT ![s].answers = Append(@, [at |-> rq[s].pc, answer |-> o])]
    /\ UNCHANGED <<serviceVars, matcherVars, filterVars>>

\* CallSettles with the groups of a user remembered from an answered request.
CallSettles_cachedGroups(s) ==
    /\ \E o \in PairAnswers(rq[s].pc) :
          LET cached == { t \in PairSlots \ {s} :
                            /\ rq[t].pc = "done" /\ rq[t].groupsFetch = "ok"
                            /\ rq[t].request.username = rq[s].request.username }
              new == IF rq[s].pc = "groups" /\ cached # {}
                     THEN afterGroups([rq[s] EXCEPT !.groupsFetch = "ok"],
                                      rq[CHOOSE t \in cached : TRUE].matchingGroups)
                     ELSE resume(rq[s], o)
          IN /\ rq' = [rq EXCEPT ![s] = new]
             /\ seen' = [seen EXCEPT ![s].answers = Append(@, [at |-> rq[s].pc, answer |-> o])]
    /\ UNCHANGED <<serviceVars, matcherVars, filterVars>>

\* The call a request awaits settles and the request runs to its next await
\* or to its end.
CallSettles(s) ==
    /\ \E o \in PairAnswers(rq[s].pc) :
          /\ rq' = [rq EXCEPT ![s] = resume(rq[s], o)]
          /\ seen' = [seen EXCEPT ![s].answers = Append(@, [at |-> rq[s].pc, answer |-> o])]
    /\ UNCHANGED <<serviceVars, matcherVars, filterVars>>

\* The response has been written and the handler invocation is over.
ResponseSent(s) ==
    /\ rq[s].pc = "done"
    /\ rq' = [rq EXCEPT ![s] = IdleRequest]
    /\ seen' = [seen EXCEPT ![s] = NoRun]
    /\ UNCHANGED <<serviceVars, matcherVars, filterVars>>

NextPair == \E s \in PairSlots : RequestArrives(s) \/ CallSettles(s) \/ ResponseSent(s)

SpecPair == InitPair /\ [][NextPair]_vars

\* ------------------------------------------------------------------------
\* The match predicate and the permission order, as the specification
\* states them
\* ------------------------------------------------------------------------
\* Rule (a): the lower-cased name of one is a substring of the other.
SubstringRule(g, t) ==
    LET gl == toLowerCase(g)
        tl == toLowerCase(t)
    IN \/ \E i \in 1..(Len(gl) + 1), j \in 0..Len(gl) : SubSeq(gl, i, j) = tl
       \/ \E i \in 1..(Len(tl) + 1), j \in 0..Len(tl) : SubSeq(tl, i, j) = gl

\* Rule (b): both patterns configured and compiling, both names match with
\* a non-empty first capture, and the captures are equal ignoring case.
PatternRule(g, t, cfg) ==
    /\ cfg.groupPattern.set /\ cfg.groupPattern.compiles
    /\ cfg.teamPattern.set /\ cfg.teamPattern.compiles
    /\ LET gm == RegExpExec(cfg.groupPattern, g)
           tm == RegExpExec(cfg.teamPattern, t)
       IN /\ gm.ok /\ tm.ok
          /\ Capture1(gm) \notin {Undefined, <<>>}
          /\ Capture1(tm) \notin {Undefined, <<>>}
          /\ toLowerCase(Capture1(gm)) = toLowerCase(Capture1(tm))

\* The (group index, team index) pairs of the matcher's input that satisfy the predicate.
SatisfiedPairs ==
    { pr \in (1..Len(mGroups)) \X (1..Len(mTeams)) :
        \/ SubstringRule(mGroups[pr[1]], mTeams[pr[2]].name)
        \/ PatternRule(mGroups[pr[1]], mTeams[pr[2]].name, config) }

\* admin > maintain > push > triage > pull.
KnownLevels == {"admin", "maintain", "push", "triage", "pull"}
Privilege(p) ==
    CASE p = "admin" -> 5
      [] p = "maintain" -> 4
      [] p = "push" -> 3
      [] p = "triage" -> 2
      [] p = "pull" -> 1
      [] OTHER -> 0

C3_MaximumOverSatisfiedPairs ==
    (/\ mPhase = "returned" /\ SatisfiedPairs # {}
     /\ \A pr \in SatisfiedPairs : mTeams[pr[2]].permission \in KnownLevels)
    => /\ \E pr \in SatisfiedPairs : mPermission = mTeams[pr[2]].permission
       /\ \A pr \in SatisfiedPairs : Privilege(mPermission) >= Privilege(mTeams[pr[2]].permission)

\* C3 witness: the group tx against teams TX:push then TX:admin returns
\* admin, the later and higher of the two satisfied pairs.
C3_Witness ==
    /\ mPhase = "returned"
    /\ mGroups = <<tx>>
    /\ mTeams = <<[name |-> TX, permission |-> "push"], [name |-> TX, permission |-> "admin"]>>
    /\ mPermission = "admin"

\* ------------------------------------------------------------------------
\* Request outcomes, read off a handler invocation's record
\* ------------------------------------------------------------------------
\* The required-field check let the request through to validateCredentials.
Admitted(r) == r.validated
\* validateCredentials ended at the authentication step.
AuthFailed(r) ==
    r.pc = "done" /\ r.validated /\ r.authResult.returned /\ "getUserGroups" \notin Range(r.calls)
\* The matcher ran and returned no permission.
Denied(r) ==
    /\ r.pc = "done" /\ "calculatePermissions" \in Range(r.calls)
    /\ calculatePermissions(r.matchingGroups, r.matchingTeams, config) = NULL
\* An exception reached the catch of validateCredentials.
InternalError(r) ==
    /\ r.pc = "done" /\ "calculatePermissions" \in Range(r.calls)
    /\ calculatePermissions(r.matchingGroups, r.matchingTeams, config) = TypeError
\* The verdict was authorized and the token could not be minted.
IssuanceFailed(r) ==
    r.pc = "done" /\ "generateScopedToken" \in Range(r.calls) /\ ~r.result.success
\* The verdict was authorized and the token was returned.
Issued(r) == r.pc = "done" /\ r.result.success

\* The calls of an authorized request, in the order of validateCredentials.
PipelineOrder ==
    <<"authenticateWithEntraID", "getUserGroups", "getRepositoryTeams", "calculatePermissions",
      "getTokenScopes", "generateScopedToken">>

\* The PAT shape: gh[pours]_ followed by exactly 36 characters of [a-zA-Z0-9/].
PatPrefixes == { <<"g", "h", c, "_">> : c \in {"p", "o", "u", "r", "s"} }
PatAlphabet ==
    {"a", "b", "c", "d", "e", "f", "g", "h", "i", "j", "k", "l", "m", "n", "o", "p", "q", "r",
     "s", "t", "u", "v", "w", "x", "y", "z", "A", "B", "C", "D", "E", "F", "G", "H", "I", "J",
     "K", "L", "M", "N", "O", "P", "Q", "R", "S", "T", "U", "V", "W", "X", "Y", "Z", "0", "1",
     "2", "3", "4", "5", "6", "7", "8", "9", "/"}
IsPatShaped(password) ==
    /\ Len(password) = 4 + PatBodyLength
    /\ SubSeq(password, 1, 4) \in PatPrefixes
    /\ \A i \in 5..Len(password) : password[i] \in PatAlphabet

\* C1: a request whose password has the PAT shape is answered with success,
\* the password itself as the token, scopes {pat-passthrough} and
\* permissions 'pat', and no authentication, resolution, matching or issuance
\* call is made for it.
C1_PatPassthrough ==
    \A s \in Slots :
        (Admitted(rq[s]) /\ IsPatShaped(rq[s].request.password)) =>
            /\ rq[s].calls = <<>>
            /\ rq[s].pc = "done"
            /\ rq[s].result.success
            /\ rq[s].result.token = rq[s].request.password
            /\ Range(rq[s].result.scopes) = {"pat-passthrough"}
            /\ rq[s].result.permissions = "pat"

\* The contents access a permission level implies on GitHub: write from
\* push upwards, read below.
ContentsAccess(level) == IF level \in {"push", "maintain", "admin"} THEN "write" ELSE "read"

\* C4: the permission map sent to the token issuer corresponds to the
\* verdict's level: a verdict of push or above asks for write access to the
\* contents, a verdict below asks for read access only.
C4_TokenMapFollowsVerdict ==
    \A s \in Slots :
        rq[s].issue.called =>
            rq[s].issue.permissions.contents = ContentsAccess(rq[s].permission)

\* C5: a token is requested or returned only after authentication, group
\* and team resolution, the matcher and the scope mapper have run, in that
\* order, and the matcher returned a permission for this request's lists.
C5_IssuanceAfterAuthorizedVerdict ==
    \A s \in Slots :
        ("generateScopedToken" \in Range(rq[s].calls) \/ rq[s].issue.called \/ Issued(rq[s])) =>
            /\ Len(rq[s].calls) >= Len(PipelineOrder)
            /\ SubSeq(rq[s].calls, 1, Len(PipelineOrder)) = PipelineOrder
            /\ rq[s].authResult.success
            /\ calculatePermissions(rq[s].matchingGroups, rq[s].matchingTeams, config)
                   \notin {NULL, TypeError}
            /\ rq[s].permission =
                   calculatePermissions(rq[s].matchingGroups, rq[s].matchingTeams, config)
            /\ rq[s].scopes = getTokenScopes(rq[s].permission)

\* C5 witness: a request answered with the installation token.
C5_Witness ==
    \E s \in Slots :
        Issued(rq[s]) /\ rq[s].issue.called /\ rq[s].result.token = InstallationToken

\* C6: group and team resolution start only after authentication returned
\* success with a bearer token; after an authentication failure the only
\* call of the request is the authentication itself.
C6_ResolutionAfterAuthentication ==
    \A s \in Slots :
        /\ (Len(rq[s].calls) > 1) =>
               (rq[s].authResult.returned /\ rq[s].authResult.success
                  /\ rq[s].authResult.accessToken \notin {NULL, ""})
        /\ (rq[s].authResult.returned /\ ~rq[s].authResult.success) =>
               (rq[s].calls = <<"authenticateWithEntraID">> /\ rq[s].pc = "done"
                  /\ ~rq[s].issue.called)

\* C6 witness: the password grant threw and the request ended there.
C6_Witness ==
    \E s \in Slots :
        /\ AuthFailed(rq[s]) /\ rq[s].upstreamError \in MsalErrors
        /\ env.ENTRAID_AUTH_METHOD = "ropc"

\* C7: a request that ends in an authentication failure or in an
\* authorization denial is answered with status 401 and success:false.
C7_FailuresAnswered401 ==
    \A s \in Slots :
        (AuthFailed(rq[s]) \/ Denied(rq[s])) =>
            /\ rq[s].status = 401
            /\ "success" \in rq[s].body.keys /\ ~rq[s].body.success

\* C7 witness: under the mock strategy a user outside the allow-list is refused.
C7_Witness ==
    \E s \in Slots :
        /\ AuthFailed(rq[s]) /\ env.ENTRAID_AUTH_METHOD = "mock"
        /\ env.TEST_VALID_USERS.value = <<"alice", ",", " bob">> /\ rq[s].request.username = "bob"
        /\ rq[s].status = 401

\* A required field of the request body is absent or empty.
MissingField(body) == body.username = "" \/ body.password = <<>> \/ body.repository = ""

\* C8: a request with username, password or repository missing is answered
\* with status 400 and success:false, and validateCredentials is not invoked.
C8_MissingFieldRejected ==
    \A s \in Slots :
        (rq[s].pc # "idle" /\ MissingField(rq[s].request)) =>
            /\ rq[s].pc = "done" /\ rq[s].status = 400
            /\ "success" \in rq[s].body.keys /\ ~rq[s].body.success
            /\ ~rq[s].validated /\ rq[s].calls = <<>> /\ ~rq[s].issue.called

\* C8 witness: only the password is missing.
C8_Witness ==
    \E s \in Slots :
        /\ rq[s].pc = "done" /\ rq[s].status = 400
        /\ rq[s].request.username = "alice" /\ rq[s].request.repository = "r"
        /\ rq[s].request.password = <<>>

\* C9: status 401 answers authentication and authorization failures only; a
\* failed token minting after an authorized verdict and an exception inside
\* the pipeline are answered with status 500.
C9_InternalFailuresAnswered500 ==
    \A s \in Slots :
        /\ (IssuanceFailed(rq[s]) \/ InternalError(rq[s])) => rq[s].status = 500
        /\ (rq[s].pc = "done" /\ rq[s].status = 401) => (AuthFailed(rq[s]) \/ Denied(rq[s]))

\* The failure response the service documents.
GenericAuthError == "Authentication failed"

\* C10: when the identity provider reports an error, the error text sent to
\* the caller is the generic one, whatever the provider's error was.
C10_ProviderErrorNotDisclosed ==
    \A s \in Slots :
        (AuthFailed(rq[s]) /\ rq[s].upstreamError \in MsalErrors) =>
            rq[s].body.error = GenericAuthError

\* ------------------------------------------------------------------------
\* Termination of a request
\* ------------------------------------------------------------------------
\* The awaited call of request s settles: every await of validateCredentials
\* is on a promise of an upstream call (or the mock strategy's timer).
Settle(s) ==
    \/ MockDelayElapsed(s)
    \/ ClientCredentialReturns(s)
    \/ UserLookupReturns(s)
    \/ RopcGrantReturns(s)
    \/ VerifyTokenReturns(s)
    \/ UserGroupsReturn(s)
    \/ RepositoryTeamsReturn(s)
    \/ InstallationReturns(s)
    \/ CreateTokenReturns(s)

\* The positions of validateCredentials, in the order it passes them.
Rank(pc) ==
    CASE pc = "idle" -> 0
      [] pc \in {"mockDelay", "clientCredential", "ropcGrant"} -> 1
      [] pc \in {"userLookup", "verifyToken"} -> 2
      [] pc = "groups" -> 3
      [] pc = "teams" -> 4
      [] pc = "installation" -> 5
      [] pc = "createToken" -> 6
      [] OTHER -> 7

\* The value validateCredentials returned is a response: a boolean success
\* and, when it is false, an error string.
IsResponse(result) ==
    /\ "success" \in result.keys /\ result.success \in BOOLEAN
    /\ ~result.success => ("error" \in result.keys /\ result.error \notin {NULL, ""})

\* The number of terminal outcomes a finished request is in.
TerminalOutcomes(r) ==
    Cardinality({ o \in {"AuthFailed", "Denied", "Issued", "IssuanceFailed"} :
                    CASE o = "AuthFailed" -> AuthFailed(r)
                      [] o = "Denied" -> Denied(r)
                      [] o = "Issued" -> Issued(r)
                      [] OTHER -> IssuanceFailed(r) })

ScopesFor(p) ==
    CASE p = "admin" -> {"repo", "admin:repo_hook", "delete_repo"}
      [] p = "maintain" -> {"repo", "admin:repo_hook"}
      [] p = "push" -> {"repo"}
      [] p = "triage" -> {"repo:status", "repo_deployment"}
      [] OTHER -> {"repo:status", "public_repo"}

\* A sequence lists exactly the elements of a set, each once.
ListsExactly(seq, set) == Range(seq) = set /\ Len(seq) = Cardinality(set)

C13_ResponseCarriesPermission ==
    \A s \in Slots :
        Issued(rq[s]) =>
            /\ rq[s].status = 200 /\ rq[s].body.success
            /\ {"token", "scopes", "permissions"} \subseteq rq[s].body.keys
            /\ rq[s].body.token = rq[s].result.token
            /\ rq[s].body.scopes = rq[s].scopes
            /\ rq[s].body.permissions = rq[s].permission

\* C14: the HTTP response to an authorization denial has success:false and
\* contains both diagnostic lists, userGroups and matchingTeams, with what
\* was found.
C14_DenialCarriesDiagnostics ==
    \A s \in Slots :
        Denied(rq[s]) =>
            /\ ~rq[s].body.success
            /\ {"userGroups", "matchingTeams"} \subseteq rq[s].body.keys
            /\ rq[s].body.userGroups = rq[s].matchingGroups
            /\ rq[s].body.matchingTeams =
                   [i \in 1..Len(rq[s].matchingTeams) |-> rq[s].matchingTeams[i].name]

\* The (group index, team index) pairs of two lists that satisfy the match predicate.
SatisfiedPairsOf(groups, teams, cfg) ==
    { pr \in (1..Len(groups)) \X (1..Len(teams)) :
        \/ SubstringRule(groups[pr[1]], teams[pr[2]].name)
        \/ PatternRule(groups[pr[1]], teams[pr[2]].name, cfg) }

\* C15: in the result of an authorized request, userGroups and matchingTeams
\* list exactly the group names and the team names that take part in at
\* least one satisfied pair.
C15_MatchedListsAreParticipants ==
    \A s \in Slots :
        Issued(rq[s]) =>
            LET pairs == SatisfiedPairsOf(rq[s].matchingGroups, rq[s].matchingTeams, config)
            IN /\ Range(rq[s].result.userGroups) =
                      { rq[s].matchingGroups[pr[1]] : pr \in pairs }
               /\ Range(rq[s].result.matchingTeams) =
                      { rq[s].matchingTeams[pr[2]].name : pr \in pairs }

\* ------------------------------------------------------------------------
\* The pattern rule under the documented patterns
\* ------------------------------------------------------------------------
\* The documented patterns are configured.
DocumentedPatterns ==
    config = [groupPattern |-> ReadmeGroupPattern, teamPattern |-> ReadmeTeamPattern]

\* The second capture of a match: the permission level token of a name.
Capture2(m) == IF Len(m.caps) >= 2 THEN m.caps[2] ELSE Undefined

\* Group g and team t denote the same project and the same permission level.
SameProjectAndLevel(g, t) ==
    LET gm == RegExpExec(ReadmeGroupPattern, g)
        tm == RegExpExec(ReadmeTeamPattern, t)
    IN /\ gm.ok /\ tm.ok
       /\ toLowerCase(Capture1(gm)) = toLowerCase(Capture1(tm))
       /\ toLowerCase(Capture2(gm)) = toLowerCase(Capture2(tm))

\* C16: with the documented patterns, lists in which no name contains the
\* other and no group and team denote the same project and the same level
\* are not correlated: calculatePermissions returns no permission, so a
\* ReadOnly group never obtains the permission of an Admin team of its project.
C16_PatternRuleComparesLevel ==
    (/\ mPhase = "returned" /\ DocumentedPatterns
     /\ \A i \in 1..Len(mGroups), j \in 1..Len(mTeams) :
           /\ ~SubstringRule(mGroups[i], mTeams[j].name)
           /\ ~SameProjectAndLevel(mGroups[i], mTeams[j].name))
    => mPermission = NULL

\* ------------------------------------------------------------------------
\* The authentication strategies
\* ------------------------------------------------------------------------
\* The strategy the service runs: ENTRAID_AUTH_METHOD, lookup when unset.
Strategy == IF env.ENTRAID_AUTH_METHOD = NULL THEN "lookup" ELSE env.ENTRAID_AUTH_METHOD

\* The elements of the comma-separated allow-list; none when it is unset.
AllowList ==
    IF env.TEST_VALID_USERS.set
    THEN { env.TEST_VALID_USERS.value[i] :
             i \in { k \in DOMAIN env.TEST_VALID_USERS.value : env.TEST_VALID_USERS.value[k] # "," } }
    ELSE {}

\* The positions in which a request waits for the identity provider or the directory.
ProviderPositions == {"clientCredential", "userLookup", "ropcGrant", "verifyToken"}

\* C17: under the mock strategy authentication succeeds if and only if the
\* username is an element of the TEST_VALID_USERS allow-list or the list
\* contains '*' (never when the list is unset), whatever the password, and
\* the authenticator contacts no external system.
C17_MockAllowList ==
    \A s \in Slots :
        Strategy = "mock" =>
            /\ rq[s].pc \notin ProviderPositions
            /\ rq[s].grantToken = NULL /\ rq[s].upstreamError = NoError
            /\ rq[s].authResult.returned =>
                  (rq[s].authResult.success <=>
                      (rq[s].request.username \in AllowList \/ "*" \in AllowList))

\* C17 witness: bob is admitted by the wildcard, with a password of any shape.
C17_Witness ==
    \E s \in Slots :
        /\ Strategy = "mock" /\ rq[s].authResult.returned /\ rq[s].authResult.success
        /\ rq[s].request.username = "bob" /\ "bob" \notin AllowList /\ "*" \in AllowList
        /\ rq[s].request.password = PatPassword

\* C18: under the lookup strategy (also the fallback of an unknown method),
\* without the confidential client and outside development every
\* authentication fails; with the client, authentication succeeds only if the
\* client-credential token was acquired and the user lookup answered found,
\* and a lookup that errs or answers a non-OK status fails it.
C18_LookupFailsClosed ==
    \A s \in Slots :
        (Strategy \notin {"mock", "ropc"} /\ rq[s].authResult.returned) =>
            /\ (~msalInstance /\ env.NODE_ENV # "development") => ~rq[s].authResult.success
            /\ (msalInstance /\ rq[s].authResult.success) =>
                  /\ rq[s].grantToken = AppOnlyToken
                  /\ rq[s].authResult.accessToken = AppOnlyToken
                  /\ rq[s].graphUser.kind = "ok"
            /\ (msalInstance /\ rq[s].graphUser.kind \notin {"none", "ok"}) =>
                  ~rq[s].authResult.success

\* C18 witness: the directory answered the lookup with a server error and
\* the authentication failed.
C18_Witness ==
    \E s \in Slots :
        /\ Strategy = "lookup" /\ msalInstance /\ rq[s].grantToken = AppOnlyToken
        /\ rq[s].graphUser.kind = "serverError"
        /\ AuthFailed(rq[s])

\* Two names are equal ignoring case.
SameNameIgnoringCase(a, b) ==
    \/ a = b
    \/ {a, b} \in {{"alice", "ALICE"}, {"bob", "Bob"}}

\* C19: under the ropc strategy authentication succeeds only if the password
\* grant returned an access token and the profile fetched with it names a
\* principal equal to the submitted username ignoring case; a mismatching,
\* missing or unfetchable principal name fails it.
C19_RopcChecksPrincipal ==
    \A s \in Slots :
        (Strategy = "ropc" /\ rq[s].authResult.returned) =>
            /\ rq[s].authResult.success =>
                  /\ rq[s].grantToken = UserToken
                  /\ rq[s].authResult.accessToken = UserToken
                  /\ rq[s].graphUser.kind = "ok"
                  /\ rq[s].graphUser.userPrincipalName # NULL
                  /\ SameNameIgnoringCase(rq[s].graphUser.userPrincipalName,
                                          rq[s].request.username)
            /\ (\/ rq[s].graphUser.kind \in {"notFound", "serverError", "throws"}
                \/ /\ rq[s].graphUser.kind = "ok"
                   /\ \/ rq[s].graphUser.userPrincipalName = NULL
                      \/ ~SameNameIgnoringCase(rq[s].graphUser.userPrincipalName,
                                               rq[s].request.username))
               => ~rq[s].authResult.success

\* C19 witness: the profile names ALICE for the submitted alice and the
\* authentication succeeds.
C19_Witness ==
    \E s \in Slots :
        /\ Strategy = "ropc" /\ rq[s].authResult.success
        /\ rq[s].request.username = "alice"
        /\ rq[s].graphUser = [kind |-> "ok", userPrincipalName |-> "ALICE"]

\* ------------------------------------------------------------------------
\* Failing resolvers
\* ------------------------------------------------------------------------
\* The error text of an authorization denial.
NotAuthorizedError == "User not authorized - no matching EntraID groups and GitHub teams found"

\* The request ended as an authorization denial answered to the caller.
AnsweredAsDenial(r) ==
    /\ r.pc = "done" /\ Denied(r) /\ ~InternalError(r)
    /\ ~r.result.success /\ r.result.error = NotAuthorizedError
    /\ ~r.body.success /\ r.status = 401
    /\ ~r.issue.called /\ "generateScopedToken" \notin Range(r.calls)

\* C20: a group or team resolution that fails (non-OK status, thrown error,
\* GitHub App not ready) yields an empty list, and the request ends as an
\* authorization denial: never a success, never an internal error.
C20_ResolverFailureDenies ==
    \A s \in Slots :
        /\ rq[s].groupsFetch = "failed" =>
              /\ rq[s].matchingGroups = <<>>
              /\ rq[s].pc = "teams" \/ AnsweredAsDenial(rq[s])
        /\ rq[s].teamsFetch \in {"failed", "notReady"} =>
              /\ rq[s].matchingTeams = <<>>
              /\ AnsweredAsDenial(rq[s])

\* C20 witness: the user has a group, the fetch of the repository's teams
\* throws, and the request is denied.
C20_Witness ==
    \E s \in Slots :
        /\ rq[s].groupsFetch = "ok" /\ rq[s].matchingGroups = <<tx>>
        /\ rq[s].teamsFetch = "failed"
        /\ AnsweredAsDenial(rq[s])

\* ------------------------------------------------------------------------
\* The pattern filter
\* ------------------------------------------------------------------------
\* A name matches a pattern case-insensitively: its lower-cased form matches.
MatchesIgnoringCase(pattern, name) ==
    name # Undefined /\ RegExpTest(pattern, toLowerCase(name))

\* The entries of list whose name (names[i] for list[i]) matches the
\* pattern, in their original order.
EntriesMatching(list, names, pattern) ==
    LET idx == { i \in 1..Len(list) : MatchesIgnoringCase(pattern, names[i]) }
        nth(k) == CHOOSE i \in idx : Cardinality({ j \in idx : j < i }) = k - 1
    IN [k \in 1..Cardinality(idx) |-> list[nth(k)]]

\* out is a sub-sequence of list: its entries are entries of list, in the same order.
IsSubSequence(out, list) ==
    \E f \in [1..Len(out) -> 1..Len(list)] :
        /\ \A k \in 1..Len(out) : out[k] = list[f[k]]
        /\ \A k \in 1..(Len(out) - 1) : f[k] < f[k + 1]

\* The names of a list of teams.
TeamNamesOf(teams) == [i \in 1..Len(teams) |-> teams[i].name]

\* C21: filterGroupsByPattern and filterTeamsByPattern return their input
\* unchanged when no pattern is configured or the pattern does not compile,
\* and otherwise exactly the entries whose name matches the pattern
\* case-insensitively, in their original order; the output is always a
\* sub-sequence of the input.
C21_FilterKeepsMatchingInOrder ==
    fPhase = "returned" =>
        /\ (~config.groupPattern.set \/ ~config.groupPattern.compiles) => fGroupsOut = fGroups
        /\ (config.groupPattern.set /\ config.groupPattern.compiles) =>
               fGroupsOut = EntriesMatching(fGroups, fGroups, config.groupPattern)
        /\ (~config.teamPattern.set \/ ~config.teamPattern.compiles) => fTeamsOut = fTeams
        /\ (config.teamPattern.set /\ config.teamPattern.compiles) =>
               fTeamsOut = EntriesMatching(fTeams, TeamNamesOf(fTeams), config.teamPattern)
        /\ IsSubSequence(fGroupsOut, fGroups)
        /\ IsSubSequence(fTeamsOut, fTeams)

\* C21 witness: with GROUP_PATTERN and TEAM_PATTERN both ^t(\d*), the group
\* TX and the team TX are kept (they match ignoring case only) and the
\* entries before and after them are dropped.
C21_Witness ==
    /\ fPhase = "returned"
    /\ config = [groupPattern |-> LooseGroupPattern, teamPattern |-> LooseGroupPattern]
    /\ fGroups = <<zP1VR, TX>> /\ fGroupsOut = <<TX>>
    /\ fTeams = <<[name |-> TX, permission |-> "read"], [name |-> zP1MA, permission |-> "admin"]>>
    /\ fTeamsOut = <<[name |-> TX, permission |-> "read"]>>

\* ------------------------------------------------------------------------
\* No retries
\* ------------------------------------------------------------------------
\* The number of times call occurs in a request's list of calls.
Occurrences(calls, call) == Cardinality({ i \in DOMAIN calls : calls[i] = call })

\* The positions in which a request waits for an upstream call (or the mock timer).
WaitingPositions ==
    {"mockDelay", "clientCredential", "userLookup", "ropcGrant", "verifyToken", "groups",
     "teams", "installation", "createToken"}

\* C22: within one request authentication, group fetch, team fetch and token
\* minting (and every other call of the pipeline) are attempted at most once;
\* a failed attempt leads directly to an empty list or to the end of the
\* request with a refusal; and when an awaited upstream call settles, the
\* request leaves that waiting position for a later one and never issues a
\* call it has already made.
C22_NoRetries ==
    /\ [](\A s \in Slots :
            /\ \A call \in Range(rq[s].calls) : Occurrences(rq[s].calls, call) = 1
            /\ (rq[s].authResult.returned /\ ~rq[s].authResult.success) =>
                   (rq[s].pc = "done" /\ ~rq[s].result.success
                      /\ "getUserGroups" \notin Range(rq[s].calls))
            /\ rq[s].groupsFetch = "failed" =>
                   (rq[s].matchingGroups = <<>> /\ rq[s].pc \in {"teams", "done"}
                      /\ ~rq[s].result.success)
            /\ rq[s].teamsFetch = "failed" =>
                   (rq[s].matchingTeams = <<>> /\ rq[s].pc = "done" /\ ~rq[s].result.success)
            /\ (rq[s].pc = "done" /\ "generateScopedToken" \in Range(rq[s].calls)
                  /\ rq[s].result.token = NoToken) =>
                   (~rq[s].result.success /\ rq[s].result.error = "Token generation failed"))
    /\ [][\A s \in Slots :
            (rq[s].pc \in WaitingPositions /\ rq'[s] # rq[s]) =>
                /\ rq'[s].pc # rq[s].pc
                /\ Rank(rq'[s].pc) > Rank(rq[s].pc)
                /\ Len(rq'[s].calls) >= Len(rq[s].calls)
                /\ SubSeq(rq'[s].calls, 1, Len(rq[s].calls)) = rq[s].calls
                /\ \A i \in (Len(rq[s].calls) + 1)..Len(rq'[s].calls) :
                       rq'[s].calls[i] \notin Range(rq[s].calls)]_vars

\* C22 witness: the group fetch failed, the team fetch was still made, once,
\* and returned teams, and the request ended as a denial.
C22_Witness ==
    \E s \in Slots :
        /\ rq[s].groupsFetch = "failed" /\ rq[s].teamsFetch = "ok"
        /\ rq[s].matchingTeams # <<>>
        /\ rq[s].calls = <<"authenticateWithEntraID", "getUserGroups", "getRepositoryTeams",
                            "calculatePermissions">>
        /\ Denied(rq[s])

\* ------------------------------------------------------------------------
\* The process-wide configuration
\* ------------------------------------------------------------------------
\* groupPattern and teamPattern, the GitHub-initialized flag and the two
\* identity-provider client instances.
ServiceConfiguration == <<config, gitHubInitialized, msalInstance, publicMsalInstance>>

\* C25: after initialize has run, no step of any request, whatever its
\* outcome, changes groupPattern, teamPattern, the GitHub-initialized flag or
\* the identity-provider client instances; they keep the values initialize
\* gave them.
C25_RequestsLeaveConfiguration ==
    /\ [](/\ config = initialize(env).config
          /\ gitHubInitialized = initialize(env).gitHubInitialized
          /\ msalInstance = initialize(env).msalInstance
          /\ publicMsalInstance = initialize(env).publicMsalInstance)
    /\ [][ServiceConfiguration' = ServiceConfiguration]_vars

\* C25 witness: with patterns, the GitHub App and the confidential client
\* configured, a request went through the whole pipeline and token minting
\* failed for want of an installation.
C25_Witness ==
    \E s \in Slots :
        /\ config.groupPattern = ReadmeGroupPattern /\ gitHubInitialized /\ msalInstance
        /\ IssuanceFailed(rq[s])
        /\ "createInstallationAccessToken" \notin Range(rq[s].calls)

\* ------------------------------------------------------------------------
\* The target of the decision and of the token
\* ------------------------------------------------------------------------
\* C27: the (organization, repository) pair used to resolve the teams equals
\* the pair passed to the token issuer, also when the request omits the
\* organization, and the token is requested for the single repository named
\* in the request.
C27_DecisionAndTokenSameTarget ==
    \A s \in Slots :
        /\ rq[s].tokenQuery.called =>
               /\ rq[s].teamsQuery.owner = rq[s].tokenQuery.organization
               /\ rq[s].teamsQuery.repo = rq[s].tokenQuery.repository
        /\ rq[s].issue.called =>
               /\ rq[s].issue.repositories = <<rq[s].request.repository>>
               /\ rq[s].issue.organization = rq[s].teamsQuery.owner

\* ------------------------------------------------------------------------
\* Permission strings outside the hierarchy
\* ------------------------------------------------------------------------
\* C28: whatever permission strings the matched teams carry (levels of the
\* hierarchy, the 'read' default, strings outside it such as 'write'), the
\* permission calculatePermissions returns is at least as privileged as
\* every known level among the satisfied pairs' teams: a value outside the
\* hierarchy never keeps a matched admin, maintain or push from being the
\* result.
C28_UnknownPermissionNeverLowers ==
    (mPhase = "returned" /\ mPermission \notin {NULL, TypeError}) =>
        \A pr \in SatisfiedPairs :
            mTeams[pr[2]].permission \in KnownLevels =>
                Privilege(mPermission) >= Privilege(mTeams[pr[2]].permission)

\* ------------------------------------------------------------------------
\* The selection of the authentication strategy
\* ------------------------------------------------------------------------
\* The strategy the selector stands for: mock for 'mock', full-grant for
\* 'ropc', lookup for 'lookup', for an unset and for an unrecognised value.
SelectedStrategy ==
    CASE env.ENTRAID_AUTH_METHOD = "mock" -> "mock"
      [] env.ENTRAID_AUTH_METHOD = "ropc" -> "ropc"
      [] OTHER -> "lookup"

AnswersAt(run, position) ==
    { run.answers[i].answer : i \in { k \in DOMAIN run.answers : run.answers[k].at = position } }

\* The group list and the team list the two resolutions yield from the
\* answers of their own fetches, each without the other; a fetch not made
\* or failed yields the empty list.
GroupsResolved(run) ==
    IF AnswersAt(run, "groups") = {} THEN <<>>
    ELSE filterGroupsByPattern(groupsOf(CHOOSE o \in AnswersAt(run, "groups") : TRUE), config)
TeamsResolved(run) ==
    IF AnswersAt(run, "teams") = {} THEN <<>>
    ELSE LET o == CHOOSE a \in AnswersAt(run, "teams") : TRUE
         IN filterTeamsByPattern(teamPermissions(IF o.kind = "ok" THEN o.data ELSE <<>>), config)

\* C23: team resolution uses nothing produced by group resolution: it is
\* started whatever the group fetch returned, its query is made of the
\* request's organization and repository alone, and each of the two filtered
\* lists is a function of its own fetch's answer only; the verdict is
\* calculatePermissions of these two lists, so it does not depend on which
\* of the two fetches is answered first.
C23_ResolutionsIndependent ==
    \A s \in PairSlots :
        /\ AnswersAt(seen[s], "groups") # {} =>
               /\ "getRepositoryTeams" \in Range(rq[s].calls)
               /\ rq[s].teamsQuery = [owner |-> seen[s].body.organization,
                                      repo |-> seen[s].body.repository]
               /\ rq[s].matchingGroups = GroupsResolved(seen[s])
        /\ AnswersAt(seen[s], "teams") # {} =>
               /\ rq[s].matchingTeams = TeamsResolved(seen[s])
               /\ rq[s].permission =
                      calculatePermissions(GroupsResolved(seen[s]), TeamsResolved(seen[s]), config)
               /\ rq[s].permission = NULL => AnsweredAsDenial(rq[s])

\* C23 witness: the group fetch failed, the team fetch was made all the same
\* and answered with a team, which is kept in the denial's list.
C23_Witness ==
    \E s \in PairSlots :
        /\ [kind |-> "notOk", value |-> <<>>] \in AnswersAt(seen[s], "groups")
        /\ [kind |-> "ok", data |-> << [name |-> TX, permission |-> "push"] >>]
              \in AnswersAt(seen[s], "teams")
        /\ rq[s].matchingTeams = << [name |-> TX, permission |-> "push"] >>
        /\ AnsweredAsDenial(rq[s])

RECURSIVE Replay(_, _)
\* The record of a request after the awaited calls answered answers, in order.
Replay(r, answers) ==
    IF answers = <<>> THEN r
    ELSE Replay(resume(r, Head(answers).answer), Tail(answers))

\* The record of the request of a run when it is the only request served.
RunAlone(run) == Replay(onRequest(run.body), run.answers)

\* The two requests overlap in time: neither arrived after the other was answered.
Concurrent(s, t) == s # t /\ t \notin seen[s].after /\ s \notin seen[t].after

\* C24: however the steps of two requests interleave at their suspension
\* points, each request's record (position, result, HTTP status and body)
\* is the one it has when served alone with the same body and the same
\* upstream answers, and a step of one request changes nothing of the other.
C24_RequestsIndependent ==
    /\ [](\A s \in PairSlots : rq[s].pc # "idle" => rq[s] = RunAlone(seen[s]))
    /\ [][\A s \in PairSlots :
            rq'[s] # rq[s] =>
                \A u \in PairSlots \ {s} : rq'[u] = rq[u] /\ seen'[u] = seen[u]]_vars

\* C24 witness: two overlapping requests of the same user for the same
\* repository; one is answered with the token, the other is denied.
C24_Witness ==
    /\ Concurrent("h1", "h2")
    /\ seen["h1"].body = seen["h2"].body
    /\ Issued(rq["h1"]) /\ rq["h1"].body.token = InstallationToken
    /\ AnsweredAsDenial(rq["h2"]) /\ rq["h2"].matchingGroups # <<>>

\* C26: every authenticated request makes its own group fetch and its own
\* team fetch, and its verdict is computed from the answers of these two
\* fetches only, also when a request of the same user for the same
\* repository was answered before it with other memberships.
C26_MembershipsNeverCached ==
    \A s \in PairSlots :
        /\ (rq[s].authResult.success /\ Rank(rq[s].pc) > Rank("groups")) =>
               Cardinality(AnswersAt(seen[s], "groups")) = 1
        /\ (rq[s].authResult.success /\ Rank(rq[s].pc) > Rank("teams")) =>
               Cardinality(AnswersAt(seen[s], "teams")) = 1
        /\ "calculatePermissions" \in Range(rq[s].calls) =>
               /\ rq[s].matchingGroups = GroupsResolved(seen[s])
               /\ rq[s].matchingTeams = TeamsResolved(seen[s])
               /\ rq[s].result.success =>
                      rq[s].result.permissions =
                          calculatePermissions(GroupsResolved(seen[s]), TeamsResolved(seen[s]), config)
               /\ calculatePermissions(GroupsResolved(seen[s]), TeamsResolved(seen[s]), config) = NULL
                      => AnsweredAsDenial(rq[s])

\* C26 witness: alice's first request was answered with the token; by her
\* second request, which arrived afterwards, her group fetch returns another
\* group, and the second request is denied.
C26_Witness ==
    /\ "h1" \in seen["h2"].after
    /\ seen["h1"].body = seen["h2"].body /\ seen["h2"].body.username = "alice"
    /\ Issued(rq["h1"]) /\ rq["h1"].matchingGroups = <<tx>>
    /\ AnswersAt(seen["h1"], "teams") = AnswersAt(seen["h2"], "teams")
    /\ rq["h2"].matchingGroups = <<zP1VR>>
    /\ AnsweredAsDenial(rq["h2"])

====
